---- MODULE Spec2Model ----
(***************************************************************************)
(* Pawnshop: ticket lifecycle, collateral stock moves, the stored computed *)
(* fields of a ticket, and the rate-table resolver.                        *)
(*                                                                         *)
(* Dates are day numbers, NoDate is an unset date.  Money on a ticket is   *)
(* held exactly: principal and appraised values in currency units, the     *)
(* derived amounts (interest, penalty, fee, total) in 1/MoneyScale of a    *)
(* unit, so that principal * rate/100 * days/30 is an integer.  ltv_ratio  *)
(* is held in hundredths of a percent, the precision of its digits=(5,2).  *)
(*                                                                         *)
(* Every handler runs in one host transaction: when it raises, the host    *)
(* rolls back every write it made, so a failed handler leaves the records  *)
(* as they were and only lastOp tells that it was invoked.                 *)
(***************************************************************************)
EXTENDS Integers, Sequences, FiniteSets, TLC

\* ---------------------------------------------------------------- bounds
MaxTickets == 2
MaxLines == 2
MaxDay == 2
MaxInvoices == 1

Tickets == 1..MaxTickets
Lines == 1..MaxLines
Days == 0..MaxDay
NoDate == -1
NoParam == -1

MaxRateLines == 2

\* inputs offered to the operations
Principals == {100, 200}
OnePrincipal == {200}
AppraisedValues == {0, 125, 250}
OneAppraisedValue == {250}
MaturityChoices == {0, 1}
GraceDayChoices == {0, 1}
ReportMaturities == {0, 1, 9}
MaxLtvChoices == {50, 80}
InterestRate == 2
InterestRateChoices == {1, 2}
RateAmounts == {0, 10}
QueryAmounts == {5, 10, 15}
FirstRatePercent == 15
QueryDates == {0, 1, 2}
TableEnds == {NoDate, 1}
Categories == {1}
Branches == {1}

\* ------------------------------------------------------- program constants
MoneyScale == 3000
LtvScale == 100
DefaultGraceDays == 7
DueSoonDays == 7
DefaultMaturityDays == 30
DefaultMaxLtv == 80
DefaultPenaltyRate == 3
DefaultServiceFeePercent == 1
DefaultServiceFeeAmount == 0
DefaultMinLoan == 100
DefaultMaxLoan == 500000

States == {"draft", "pledged", "renewed", "redeemed", "forfeited", "cancelled"}
Dests == {"custody", "customer", "forfeited"}
ProductKeys == {"interest", "penalty", "service"}

VARIABLES
    tickets,     \* pawn.ticket records, by id
    lines,       \* pawn.ticket.line records, by id
    config,      \* ir.config_parameter values of the pawnshop.* keys
    today,       \* date.today()
    lastOp,      \* the operation invoked last and its outcome
    rate_table,  \* one pawn.rate.table record: its validity window
    rate_lines,  \* the pawn.rate.table.line records of that table
    rate_query,  \* the last get_applicable_rate call and what it returned
    wizard       \* one pawn.intake.wizard record

vars == <<tickets, lines, config, today, lastOp, rate_table, rate_lines, rate_query,
          wizard>>

\* ------------------------------------------------------------- records
NoTicket ==
    [exists |-> FALSE, state |-> "draft", principal_amount |-> 0,
     interest_rate |-> 0, appraised_value |-> 0, ltv_ratio |-> 0,
     date_maturity |-> NoDate, date_grace_end |-> NoDate,
     date_pledged |-> NoDate, date_renewed |-> NoDate,
     date_redeemed |-> NoDate, date_forfeited |-> NoDate,
     disbursed |-> FALSE,
     interest_amount |-> 0, penalty_amount |-> 0, service_fee |-> 0,
     total_due |-> 0, invoice_ids |-> <<>>, ltv_max_checked |-> 0]

NoMoves == [d \in Dests |-> 0]

NoLine ==
    [ticket_id |-> 0, appraised_value |-> 0, product_id |-> FALSE,
     stock_move_ids |-> NoMoves]

Op(name, ids, ok, note) == [op |-> name, ids |-> ids, ok |-> ok, note |-> note]

\* ------------------------------------------------------------- helpers
RECURSIVE SumOver(_, _)
SumOver(f, S) ==
    IF S = {} THEN 0
    ELSE LET x == CHOOSE y \in S : TRUE IN f[x] + SumOver(f, S \ {x})

\* float_round(value, precision_digits=2), half away from zero, for num, den >= 0
RoundDiv(num, den) == (2 * num + den) \div (2 * den)

line_ids(ls, t) == {l \in Lines : ls[l].ticket_id = t}

\* ------------------------------------------------- stored computed fields
_compute_amounts(ls, t) ==
    SumOver([l \in Lines |-> ls[l].appraised_value], line_ids(ls, t))

_compute_ltv_ratio(principal, appraised) ==
    IF appraised > 0 THEN RoundDiv(principal * 100 * LtvScale, appraised) ELSE 0

\* int(get_param('pawnshop.grace_period_days', default=7)); NoParam: no such
\* row in ir_config_parameter
grace_period_days(cfg) ==
    IF cfg.grace_period_days = NoParam THEN DefaultGraceDays ELSE cfg.grace_period_days

_compute_date_grace_end(maturity, cfg) ==
    IF maturity # NoDate THEN maturity + grace_period_days(cfg) ELSE NoDate

\* the non-stored status flags, evaluated on read at the given day
is_due_today(tk, day) ==
    tk.state \in {"pledged", "renewed"} /\ tk.date_maturity = day

is_overdue(tk, day) ==
    /\ tk.state \in {"pledged", "renewed"}
    /\ tk.date_maturity # NoDate
    /\ tk.date_maturity < day

\* the grace-end day itself counted as past grace
is_in_grace_before_end(tk, day) ==
    /\ tk.state \in {"pledged", "renewed"}
    /\ tk.date_grace_end # NoDate
    /\ is_overdue(tk, day)
    /\ tk.date_grace_end > day

is_in_grace(tk, day) ==
    /\ tk.state \in {"pledged", "renewed"}
    /\ tk.date_grace_end # NoDate
    /\ is_overdue(tk, day)
    /\ tk.date_grace_end >= day

\* a whole month's interest whatever the days
_compute_interest_amount_full_month(tk) ==
    IF tk.state \in {"draft", "cancelled"} THEN 0
    ELSE IF tk.date_pledged # NoDate /\ tk.date_maturity # NoDate
         THEN tk.principal_amount * tk.interest_rate * 30
         ELSE 0

_compute_interest_amount(tk) ==
    IF tk.state \in {"draft", "cancelled"} THEN 0
    ELSE IF tk.date_pledged # NoDate /\ tk.date_maturity # NoDate
         THEN tk.principal_amount * tk.interest_rate
                  * (tk.date_maturity - tk.date_pledged)
         ELSE 0

_compute_penalty_amount(tk, cfg, day) ==
    IF tk.state \in {"draft", "cancelled"} THEN 0
    ELSE IF is_overdue(tk, day) /\ tk.date_maturity # NoDate
         THEN tk.principal_amount * cfg.penalty_rate_percent
                  * (day - tk.date_maturity)
         ELSE 0

_compute_service_fee(tk, cfg) ==
    LET percent == tk.principal_amount * cfg.service_fee_percent * (MoneyScale \div 100)
        fixed == cfg.service_fee_amount * MoneyScale
    IN  CASE cfg.service_fee_type = "fixed" -> fixed
          [] cfg.service_fee_type = "percent" -> percent
          [] cfg.service_fee_type = "both" -> percent + fixed
          [] OTHER -> 0

\* the sum in every state
_compute_total_due_any_state(tk) ==
    tk.principal_amount * MoneyScale + tk.interest_amount
        + tk.penalty_amount + tk.service_fee

_compute_total_due(tk) ==
    IF tk.state \in {"redeemed", "forfeited", "cancelled"} THEN 0
    ELSE tk.principal_amount * MoneyScale + tk.interest_amount
             + tk.penalty_amount + tk.service_fee

\* _compute_interest_penalty, then its dependant _compute_total_due
_compute_interest_penalty(tk, cfg, day) ==
    LET a == [tk EXCEPT !.interest_amount = _compute_interest_amount(tk),
                        !.penalty_amount = _compute_penalty_amount(tk, cfg, day)]
    IN  [a EXCEPT !.total_due = _compute_total_due(a)]

\* a write of state and date stamps: the fields depending on 'state',
\* 'date_pledged' are recomputed
WriteState(tk, cfg, day) == _compute_interest_penalty(tk, cfg, day)

\* a write of date_maturity: date_grace_end, then interest/penalty/total
WriteMaturity(tk, cfg, day) ==
    _compute_interest_penalty(
        [tk EXCEPT !.date_grace_end = _compute_date_grace_end(tk.date_maturity, cfg)],
        cfg, day)

\* a write of principal_amount: ltv_ratio, service_fee, interest/penalty/total
WritePrincipal(tk, cfg, day) ==
    _compute_interest_penalty(
        [tk EXCEPT !.ltv_ratio = _compute_ltv_ratio(tk.principal_amount, tk.appraised_value),
                   !.service_fee = _compute_service_fee(tk, cfg)],
        cfg, day)

\* a change of the lines of ticket t: appraised_value, then ltv_ratio
WriteLines(tk, ls, t) ==
    LET a == _compute_amounts(ls, t)
    IN  [tk EXCEPT !.appraised_value = a,
                   !.ltv_ratio = _compute_ltv_ratio(tk.principal_amount, a)]

\* ------------------------------------------------------------ constraints
\* the check against the default maximum instead of the configured one
_check_ltv_ratio_default(tk, cfg) == tk.ltv_ratio <= DefaultMaxLtv * LtvScale

_check_ltv_ratio(tk, cfg) == tk.ltv_ratio <= cfg.max_ltv_ratio * LtvScale

_check_loan_amount_limits(tk, cfg) ==
    /\ tk.principal_amount >= cfg.min_loan_amount
    /\ ~(cfg.max_loan_amount > 0 /\ tk.principal_amount > cfg.max_loan_amount)

_check_has_items(tk, ls, t) == ~(tk.state # "draft" /\ line_ids(ls, t) = {})

_check_appraised_value(ln) == ln.appraised_value > 0

\* ------------------------------------------- pawn.ticket.line stock moves
\* Each returns [ok, line, note]: ok is FALSE when the method raises, note
\* tells whether a move was created or an existing completed move returned.
\* st is the line's related state field (its ticket's state).
LineResult(ok, ln, note) == [ok |-> ok, line |-> ln, note |-> note]

\* the product is created, the move is not
_create_stock_move_product_only(ln, st) ==
    IF st \notin {"draft", "pledged"} THEN LineResult(FALSE, ln, "state")
    ELSE LineResult(TRUE, [ln EXCEPT !.product_id = TRUE], "existing")

_create_stock_move(ln, st) ==
    IF st \notin {"draft", "pledged"} THEN LineResult(FALSE, ln, "state")
    ELSE LET withProduct == [ln EXCEPT !.product_id = TRUE]
         IN  IF withProduct.stock_move_ids["custody"] > 0
             THEN LineResult(TRUE, withProduct, "existing")
             ELSE LineResult(TRUE,
                     [withProduct EXCEPT !.stock_move_ids["custody"] = @ + 1],
                     "created")

\* no look-up of an existing completed move
_forfeit_item_unchecked(ln, st) ==
    IF st # "forfeited" THEN LineResult(FALSE, ln, "state")
    ELSE IF ~ln.product_id THEN LineResult(FALSE, ln, "product")
    ELSE LineResult(TRUE, [ln EXCEPT !.stock_move_ids["forfeited"] = @ + 1], "created")

_forfeit_item(ln, st) ==
    IF st # "forfeited" THEN LineResult(FALSE, ln, "state")
    ELSE IF ~ln.product_id THEN LineResult(FALSE, ln, "product")
    ELSE IF ln.stock_move_ids["forfeited"] > 0 THEN LineResult(TRUE, ln, "existing")
    ELSE LineResult(TRUE, [ln EXCEPT !.stock_move_ids["forfeited"] = @ + 1], "created")

\* a line without a product is skipped instead of raising
_redeem_item_skipping(ln, st) ==
    IF st # "redeemed" THEN LineResult(FALSE, ln, "state")
    ELSE IF ~ln.product_id THEN LineResult(TRUE, ln, "existing")
    ELSE IF ln.stock_move_ids["customer"] > 0 THEN LineResult(TRUE, ln, "existing")
    ELSE LineResult(TRUE, [ln EXCEPT !.stock_move_ids["customer"] = @ + 1], "created")

_redeem_item(ln, st) ==
    IF st # "redeemed" THEN LineResult(FALSE, ln, "state")
    ELSE IF ~ln.product_id THEN LineResult(FALSE, ln, "product")
    ELSE IF ln.stock_move_ids["customer"] > 0 THEN LineResult(TRUE, ln, "existing")
    ELSE LineResult(TRUE, [ln EXCEPT !.stock_move_ids["customer"] = @ + 1], "created")

\* ------------------------------------------------------------------ Init
InitConfig ==
    [grace_period_days |-> 1,
     max_ltv_ratio |-> DefaultMaxLtv,
     penalty_rate_percent |-> DefaultPenaltyRate,
     service_fee_type |-> "percent",
     service_fee_percent |-> DefaultServiceFeePercent,
     service_fee_amount |-> DefaultServiceFeeAmount,
     min_loan_amount |-> DefaultMinLoan,
     max_loan_amount |-> DefaultMaxLoan,
     products |-> ProductKeys]

\* pawn.intake.wizard: no record yet; customer_id and branch_id are required
\* columns, set on every saved record
NoWizard ==
    [exists |-> FALSE, current_step |-> "customer", customer_id |-> FALSE,
     branch_id |-> FALSE, line_ids |-> <<>>, principal_amount |-> 0,
     date_maturity |-> NoDate, terms_accepted |-> FALSE]

NoQuery ==
    [asked |-> FALSE, loan_amount |-> 0, category_id |-> 0, branch_id |-> 0,
     date |-> 0, applicable |-> {}, found |-> FALSE, rate |-> 0]

Init ==
    /\ tickets = [t \in Tickets |-> NoTicket]
    /\ lines = [l \in Lines |-> NoLine]
    /\ config = InitConfig
    /\ today = 0
    /\ lastOp = Op("init", <<>>, TRUE, "")
    /\ rate_table = [date_from |-> 0, date_to |-> NoDate]
    /\ rate_lines = {}
    /\ rate_query = NoQuery
    /\ wizard = NoWizard

RateUnchanged == UNCHANGED <<rate_table, rate_lines, rate_query>>

WizardUnchanged == UNCHANGED wizard

\* the outcome of a handler: commit its writes, or roll them back when it raised
Finish(name, ids, ok, note, tks, lns) ==
    /\ lastOp' = Op(name, ids, ok, note)
    /\ tickets' = IF ok THEN tks ELSE tickets
    /\ lines' = IF ok THEN lns ELSE lines
    /\ UNCHANGED <<config, today>>
    /\ RateUnchanged
    /\ WizardUnchanged

\* ------------------------------------------------------ create and amend
\* pawn.ticket create: a draft ticket without lines
create(t, p, m) ==
    /\ ~tickets[t].exists
    /\ LET raw == [NoTicket EXCEPT !.exists = TRUE, !.principal_amount = p,
                                   !.interest_rate = InterestRate,
                                   !.date_maturity = m,
                                   !.ltv_max_checked = config.max_ltv_ratio]
           tk == WritePrincipal(WriteMaturity(raw, config, today), config, today)
           ok == _check_loan_amount_limits(tk, config) /\ _check_ltv_ratio(tk, config)
       IN  Finish("create", <<t>>, ok, "", [tickets EXCEPT ![t] = tk], lines)

\* pawn.ticket write of principal_amount
write_principal(t, p) ==
    /\ tickets[t].exists
    /\ tickets[t].principal_amount # p
    /\ LET tk == WritePrincipal([tickets[t] EXCEPT !.principal_amount = p,
                                                   !.ltv_max_checked = config.max_ltv_ratio],
                                config, today)
           ok == _check_loan_amount_limits(tk, config) /\ _check_ltv_ratio(tk, config)
       IN  Finish("write_principal", <<t>>, ok, "", [tickets EXCEPT ![t] = tk], lines)

\* pawn.ticket write of interest_rate: interest/penalty/total recomputed
write_interest_rate(t, r) ==
    /\ tickets[t].exists
    /\ tickets[t].interest_rate # r
    /\ LET tk == _compute_interest_penalty([tickets[t] EXCEPT !.interest_rate = r],
                                           config, today)
       IN  Finish("write_interest_rate", <<t>>, TRUE, "", [tickets EXCEPT ![t] = tk], lines)

\* the ticket of a line change: appraised_value and ltv_ratio recomputed,
\* then _check_ltv_ratio on the recomputed fields
AfterLines(t, lns) ==
    WriteLines([tickets[t] EXCEPT !.ltv_max_checked = config.max_ltv_ratio], lns, t)

\* pawn.ticket.line create, on a ticket in any state
line_create(l, t, v, prod) ==
    /\ lines[l].ticket_id = 0
    /\ tickets[t].exists
    /\ LET ln == [NoLine EXCEPT !.ticket_id = t, !.appraised_value = v,
                                !.product_id = prod]
           lns == [lines EXCEPT ![l] = ln]
           tk == AfterLines(t, lns)
           ok == _check_appraised_value(ln) /\ _check_ltv_ratio(tk, config)
       IN  Finish("line_create", <<l>>, ok, "", [tickets EXCEPT ![t] = tk], lns)

\* pawn.ticket.line write of appraised_value
line_write(l, v) ==
    /\ lines[l].ticket_id # 0
    /\ lines[l].appraised_value # v
    /\ LET t == lines[l].ticket_id
           ln == [lines[l] EXCEPT !.appraised_value = v]
           lns == [lines EXCEPT ![l] = ln]
           tk == AfterLines(t, lns)
           ok == _check_appraised_value(ln) /\ _check_ltv_ratio(tk, config)
       IN  Finish("line_write", <<l>>, ok, "", [tickets EXCEPT ![t] = tk], lns)

\* pawn.ticket.line unlink; stock.move.pawn_line_id is ondelete='restrict'.
\* viaTicket: the line is removed by a write of the ticket's line_ids, which
\* runs _check_has_items; an unlink of the line record itself does not.
line_unlink(l, viaTicket) ==
    /\ lines[l].ticket_id # 0
    /\ LET t == lines[l].ticket_id
           lns == [lines EXCEPT ![l] = NoLine]
           tk == AfterLines(t, lns)
           ok == /\ lines[l].stock_move_ids = NoMoves
                 /\ _check_ltv_ratio(tk, config)
                 /\ (viaTicket => _check_has_items(tk, lns, t))
       IN  Finish("line_unlink", <<l>>, ok, "", [tickets EXCEPT ![t] = tk], lns)

\* ------------------------------------------------------ lifecycle actions
\* the state check "not in ('pledged', 'renewed')" letting drafts through
ActiveOrDraft == {"draft", "pledged", "renewed"}

\* the states the renew, redeem and forfeit handlers accept
Active == {"pledged", "renewed"}

\* the loop "for line in self.line_ids: line.<method>()" over the lines of t
LoopOk(results, t) == \A l \in line_ids(lines, t) : results[l].ok

LoopLines(results, t) ==
    [l \in Lines |-> IF l \in line_ids(lines, t) THEN results[l].line ELSE lines[l]]

\* the state written without the pledge date
action_disburse_undated(t) ==
    /\ tickets[t].exists
    /\ LET pre == tickets[t].state = "draft"
           tk == WriteState([tickets[t] EXCEPT !.state = "pledged",
                                               !.disbursed = TRUE],
                            config, today)
           results == [l \in Lines |-> _create_stock_move(lines[l], tk.state)]
           ok == pre /\ LoopOk(results, t)
       IN  Finish("action_disburse", <<t>>, ok, IF pre THEN "" ELSE "state",
                  [tickets EXCEPT ![t] = tk], LoopLines(results, t))

action_disburse(t) ==
    /\ tickets[t].exists
    /\ LET pre == tickets[t].state = "draft"
           tk == WriteState([tickets[t] EXCEPT !.state = "pledged",
                                               !.date_pledged = today,
                                               !.disbursed = TRUE],
                            config, today)
           results == [l \in Lines |-> _create_stock_move(lines[l], tk.state)]
           ok == pre /\ LoopOk(results, t)
       IN  Finish("action_disburse", <<t>>, ok, IF pre THEN "" ELSE "state",
                  [tickets EXCEPT ![t] = tk], LoopLines(results, t))

action_forfeit(t) ==
    /\ tickets[t].exists
    /\ LET pre == tickets[t].state \in Active
           overdue == is_overdue(tickets[t], today)
           grace == is_in_grace(tickets[t], today)
           tk == WriteState([tickets[t] EXCEPT !.state = "forfeited",
                                               !.date_forfeited = today],
                            config, today)
           results == [l \in Lines |-> _forfeit_item(lines[l], tk.state)]
           ok == pre /\ overdue /\ ~grace /\ LoopOk(results, t)
           note == IF ~pre THEN "state"
                   ELSE IF ~overdue THEN "not overdue"
                   ELSE IF grace THEN "grace"
                   ELSE IF ~ok THEN "product" ELSE ""
       IN  Finish("action_forfeit", <<t>>, ok, note,
                  [tickets EXCEPT ![t] = tk], LoopLines(results, t))

\* non-draft records are skipped instead of raising
CancelLoopSkipping(tks, ids) ==
    [ok |-> TRUE,
     tickets |-> [t \in Tickets |->
                    IF (\E i \in DOMAIN ids : ids[i] = t) /\ tks[t].state = "draft"
                    THEN WriteState([tks[t] EXCEPT !.state = "cancelled"], config, today)
                    ELSE tks[t]]]

\* "for record in self": the records before the first non-draft one are
\* written, then the method raises
RECURSIVE CancelLoop(_, _)
CancelLoop(tks, ids) ==
    IF ids = <<>> THEN [ok |-> TRUE, tickets |-> tks]
    ELSE LET t == Head(ids)
         IN  IF tks[t].state # "draft" THEN [ok |-> FALSE, tickets |-> tks]
             ELSE CancelLoop(
                     [tks EXCEPT ![t] = WriteState([tks[t] EXCEPT !.state = "cancelled"],
                                                   config, today)],
                     Tail(ids))

Recordsets ==
    {ids \in UNION {[1..n -> Tickets] : n \in 1..MaxTickets} :
        /\ \A i \in DOMAIN ids : tickets[ids[i]].exists
        /\ \A i, j \in DOMAIN ids : i # j => ids[i] # ids[j]}

action_cancel(ids) ==
    /\ ids \in Recordsets
    /\ LET r == CancelLoop(tickets, ids)
       IN  Finish("action_cancel", ids, r.ok, IF r.ok THEN "" ELSE "state",
                  r.tickets, lines)

\* ----------------------------------------------------------- the wizards
Invoice(kind, posted, paid) == [kind |-> kind, posted |-> posted, paid |-> paid]

has_product(cfg, key) == key \in cfg.products

\* the product checks of the renewal invoice lines, on the wizard's amounts
\* (pre-filled from the ticket by default_get)
\* the service-fee line appended without looking up its product
RenewLinesOkFeeUnchecked(tk, cfg) ==
    /\ (tk.interest_amount # 0 => has_product(cfg, "interest"))
    /\ (tk.penalty_amount # 0 => has_product(cfg, "penalty"))

RenewLinesOk(tk, cfg) ==
    /\ (tk.interest_amount # 0 => has_product(cfg, "interest"))
    /\ (tk.penalty_amount # 0 => has_product(cfg, "penalty"))
    /\ (tk.service_fee # 0 => has_product(cfg, "service"))

RedeemLinesOk(tk, cfg) ==
    /\ (has_product(cfg, "service") \/ has_product(cfg, "interest"))
    /\ (tk.interest_amount # 0 => has_product(cfg, "interest"))
    /\ (tk.penalty_amount # 0 => has_product(cfg, "penalty"))
    /\ (tk.service_fee # 0 => has_product(cfg, "service"))

\* PawnRenewWizard.action_confirm with the entered new_maturity_date
renew_action_confirm(t, new_maturity_date) ==
    /\ tickets[t].exists
    /\ Len(tickets[t].invoice_ids) < MaxInvoices
    /\ LET pre == tickets[t].state \in Active
           linesOk == RenewLinesOk(tickets[t], config)
           written == WriteMaturity([tickets[t] EXCEPT !.date_maturity = new_maturity_date,
                                                       !.state = "renewed"],
                                    config, today)
           tk == [written EXCEPT !.invoice_ids =
                                     Append(@, Invoice("renewal", FALSE, FALSE))]
           note == IF ~pre THEN "state" ELSE IF ~linesOk THEN "product" ELSE ""
       IN  Finish("renew_action_confirm", <<t>>, pre /\ linesOk, note,
                  [tickets EXCEPT ![t] = tk], lines)

\* a failure of inv.action_post() swallowed like one of the payment
redeem_completes_unposted(pre, linesOk, post_ok, loopOk) ==
    pre /\ linesOk /\ loopOk

\* whether action_confirm returns: every raise site passed; the payment
\* registration is not among them (its exception is swallowed)
redeem_completes(pre, linesOk, post_ok, loopOk) ==
    pre /\ linesOk /\ post_ok /\ loopOk

\* PawnRedeemWizard.action_confirm; post_ok, pay_ok: whether inv.action_post()
\* and the payment registration succeed
redeem_action_confirm(t, post_ok, pay_ok) ==
    /\ tickets[t].exists
    /\ LET pre == tickets[t].state \in Active
           linesOk == RedeemLinesOk(tickets[t], config)
           written == WriteState([tickets[t] EXCEPT !.state = "redeemed",
                                                    !.date_redeemed = today],
                                 config, today)
           results == [l \in Lines |-> _redeem_item(lines[l], written.state)]
           tk == [written EXCEPT !.invoice_ids =
                                     Append(@, Invoice("redemption", post_ok, pay_ok))]
           ok == redeem_completes(pre, linesOk, post_ok, LoopOk(results, t))
           note == IF ~pre THEN "state"
                   ELSE IF ~linesOk THEN "product"
                   ELSE IF ~post_ok THEN "post"
                   ELSE IF ~ok THEN "line" ELSE ""
       IN  Finish("redeem_action_confirm", <<t>>, ok, note,
                  [tickets EXCEPT ![t] = tk], LoopLines(results, t))

\* ------------------------------------------------ invoices from the ticket
\* one invoice line: (0, 0, {'name': ..., 'price_unit': ...})
InvoiceLine(label, price_unit) == [name |-> label, price_unit |-> price_unit]

\* "if amount: lines.append(...)"
AppendIf(ls, label, amount) ==
    IF amount # 0 THEN Append(ls, InvoiceLine(label, amount)) ELSE ls

\* PawnTicket._prepare_invoice_lines(kind): [ok, lines], ok FALSE when it raises
_prepare_invoice_lines(tk, cfg, kind) ==
    LET interest == tk.interest_amount # 0 => has_product(cfg, "interest")
        penalty == tk.penalty_amount # 0 => has_product(cfg, "penalty")
        service == tk.service_fee # 0 => has_product(cfg, "service")
        principal == has_product(cfg, "service") \/ has_product(cfg, "interest")
        charges == AppendIf(AppendIf(<<>>, "Interest", tk.interest_amount),
                            "Penalty", tk.penalty_amount)
    IN  CASE kind = "renewal" ->
                 [ok |-> interest /\ penalty /\ service,
                  lines |-> AppendIf(charges, "Service Fee", tk.service_fee)]
          [] kind = "redemption" ->
                 [ok |-> principal /\ interest /\ penalty,
                  lines |-> <<InvoiceLine("Principal", tk.principal_amount * MoneyScale)>>
                                \o charges]
          [] OTHER -> [ok |-> FALSE, lines |-> <<>>]

\* the lines PawnRedeemWizard.action_confirm builds from its amounts, which
\* default_get pre-fills from the ticket
redeem_wizard_lines(tk, cfg) ==
    [ok |-> RedeemLinesOk(tk, cfg),
     lines |-> AppendIf(
                 AppendIf(
                   AppendIf(<<InvoiceLine("Principal", tk.principal_amount * MoneyScale)>>,
                            "Interest", tk.interest_amount),
                   "Penalty", tk.penalty_amount),
                 "Service Fee", tk.service_fee)]

\* PawnTicket.action_create_redemption_invoice; on success lastOp.note holds
\* the lines of the invoice created
action_create_redemption_invoice(t) ==
    /\ tickets[t].exists
    /\ Len(tickets[t].invoice_ids) < MaxInvoices
    /\ LET pre == tickets[t].state \in {"pledged", "renewed"}
           r == _prepare_invoice_lines(tickets[t], config, "redemption")
           ok == pre /\ r.ok
           tk == [tickets[t] EXCEPT !.invoice_ids =
                                        Append(@, Invoice("redemption", FALSE, FALSE))]
       IN  Finish("action_create_redemption_invoice", <<t>>, ok,
                  IF ok THEN r.lines ELSE IF pre THEN "product" ELSE "state",
                  [tickets EXCEPT ![t] = tk], lines)

\* ------------------------------------------------- time and configuration
AdvanceDay ==
    /\ today < MaxDay
    /\ today' = today + 1
    /\ lastOp' = Op("AdvanceDay", <<>>, TRUE, "")
    /\ UNCHANGED <<tickets, lines, config>>
    /\ RateUnchanged
    /\ WizardUnchanged

\* res.config.settings: pawnshop.grace_period_days
set_grace_period_days(g) ==
    /\ config.grace_period_days # g
    /\ config' = [config EXCEPT !.grace_period_days = g]
    /\ lastOp' = Op("set_grace_period_days", <<>>, TRUE, "")
    /\ UNCHANGED <<tickets, lines, today>>
    /\ RateUnchanged
    /\ WizardUnchanged

\* res.config.settings: the three invoicing products, S those configured
set_products(S) ==
    /\ config.products # S
    /\ config' = [config EXCEPT !.products = S]
    /\ lastOp' = Op("set_products", <<>>, TRUE, "")
    /\ UNCHANGED <<tickets, lines, today>>
    /\ RateUnchanged
    /\ WizardUnchanged

\* res.config.settings: pawnshop.max_ltv_ratio
set_max_ltv_ratio(x) ==
    /\ config.max_ltv_ratio # x
    /\ config' = [config EXCEPT !.max_ltv_ratio = x]
    /\ lastOp' = Op("set_max_ltv_ratio", <<>>, TRUE, "")
    /\ UNCHANGED <<tickets, lines, today>>
    /\ RateUnchanged
    /\ WizardUnchanged

\* ------------------------------------------------------ searchable flags
\* Each _search_* returns a domain; here the domain is applied to ticket tk.
SearchOperators == {"=", "!="}

\* the test "(operator == '=' and value) or (operator == '!=' and not value)"
Positive(operator, value) ==
    (operator = "=" /\ value) \/ (operator = "!=" /\ ~value)

_search_due_today(operator, value, tk, day) ==
    IF Positive(operator, value)
    THEN tk.date_maturity = day /\ tk.state \in {"pledged", "renewed"}
    ELSE tk.date_maturity # day

_search_overdue(operator, value, tk, day) ==
    IF Positive(operator, value)
    THEN tk.date_maturity < day /\ tk.state \in {"pledged", "renewed"}
    ELSE tk.date_maturity >= day

_search_in_grace(operator, value, tk, cfg, day) ==
    LET grace_start == day - grace_period_days(cfg)
    IN  IF Positive(operator, value)
        THEN /\ tk.date_maturity >= grace_start
             /\ tk.date_maturity < day
             /\ tk.state \in {"pledged", "renewed"}
        ELSE tk.date_maturity < grace_start \/ tk.date_maturity >= day

SearchFields == {"is_due_today", "is_overdue", "is_in_grace"}

InDomain(field, operator, value, tk) ==
    CASE field = "is_due_today" -> _search_due_today(operator, value, tk, today)
      [] field = "is_overdue" -> _search_overdue(operator, value, tk, today)
      [] field = "is_in_grace" -> _search_in_grace(operator, value, tk, config, today)

\* the recordset as the sequence of its ids, in id order
RECURSIVE IdSeq(_)
IdSeq(S) ==
    IF S = {} THEN <<>>
    ELSE LET t == CHOOSE x \in S : \A y \in S : x <= y
         IN  <<t>> \o IdSeq(S \ {t})

\* pawn.ticket search([(field, operator, value)]); lastOp.ids holds the
\* tickets found, lastOp.note the domain searched
search(field, operator, value) ==
    /\ lastOp' = Op("search",
                    IdSeq({t \in Tickets : /\ tickets[t].exists
                                           /\ InDomain(field, operator, value, tickets[t])}),
                    TRUE, <<field, operator, value>>)
    /\ UNCHANGED <<tickets, lines, config, today>>
    /\ RateUnchanged
    /\ WizardUnchanged

\* -------------------------------------------------- loan book report view
\* the view's WHERE clause
listed(tk) == tk.state \in {"active", "renewed"}

\* the view's CASE for aging_bucket; the sub-select on ir_config_parameter
\* yields NULL when the parameter has no row, and a comparison with NULL is
\* not true
aging_bucket(tk, cfg, day) ==
    IF tk.date_maturity > day + DueSoonDays THEN "current"
    ELSE IF tk.date_maturity > day THEN "due_soon"
    ELSE IF tk.date_maturity = day THEN "matured"
    ELSE IF /\ cfg.grace_period_days # NoParam
            /\ (day - tk.date_maturity) <= cfg.grace_period_days THEN "grace"
    ELSE "overdue"

\* a read of ticket t's row of pawn_loan_book_report: lastOp.ok tells whether
\* the view lists the ticket, lastOp.note its aging_bucket
report_read(t) ==
    /\ tickets[t].exists
    /\ lastOp' = Op("loan_book_report", <<t>>, listed(tickets[t]),
                    IF listed(tickets[t]) THEN aging_bucket(tickets[t], config, today)
                    ELSE "")
    /\ UNCHANGED <<tickets, lines, config, today>>
    /\ RateUnchanged
    /\ WizardUnchanged

Buckets == <<"current", "due_soon", "matured", "grace", "overdue">>

\* get_aging_summary(): for each bucket, the count of the view's rows with
\* that aging_bucket; lastOp.ids holds the five counts
get_aging_summary ==
    /\ lastOp' = Op("get_aging_summary",
                    [i \in DOMAIN Buckets |->
                        Cardinality({t \in Tickets :
                            /\ tickets[t].exists
                            /\ listed(tickets[t])
                            /\ aging_bucket(tickets[t], config, today) = Buckets[i]})],
                    TRUE, "")
    /\ UNCHANGED <<tickets, lines, config, today>>
    /\ RateUnchanged
    /\ WizardUnchanged

\* ------------------------------------------- line methods called directly
LineCall(name, l, r) ==
    Finish(name, <<l>>, r.ok, r.note, tickets, [lines EXCEPT ![l] = r.line])

call_create_stock_move(l) ==
    /\ lines[l].ticket_id # 0
    /\ LineCall("_create_stock_move", l,
                _create_stock_move(lines[l], tickets[lines[l].ticket_id].state))

call_forfeit_item(l) ==
    /\ lines[l].ticket_id # 0
    /\ LineCall("_forfeit_item", l,
                _forfeit_item(lines[l], tickets[lines[l].ticket_id].state))

call_redeem_item(l) ==
    /\ lines[l].ticket_id # 0
    /\ LineCall("_redeem_item", l,
                _redeem_item(lines[l], tickets[lines[l].ticket_id].state))

\* ------------------------------------------------------------ rate table
\* amount_to, category_id, branch_id: 0 is the unset (falsy) value
RateLine(from, to, cat, br, rate) ==
    [amount_from |-> from, amount_to |-> to, category_id |-> cat,
     branch_id |-> br, rate_percent |-> rate]

_check_amount_range(rl) == ~(rl.amount_to # 0 /\ rl.amount_to <= rl.amount_from)

\* the range test with touching ranges let through
OverlapsInside(l, record) ==
    /\ (l.amount_to = 0 \/ l.amount_to > record.amount_from)
    /\ (record.amount_to = 0 \/ record.amount_to > l.amount_from)

Overlaps(l, record) ==
    /\ (l.amount_to = 0 \/ l.amount_to >= record.amount_from)
    /\ (record.amount_to = 0 \/ record.amount_to >= l.amount_from)

_check_overlapping_ranges(record, others) ==
    ~\E l \in others :
        /\ l.category_id = record.category_id
        /\ l.branch_id = record.branch_id
        /\ Overlaps(l, record)

\* the filter with the upper limit excluded
IsApplicableBelow(l, loan_amount, category_id, branch_id) ==
    /\ l.amount_from <= loan_amount
    /\ (l.amount_to = 0 \/ loan_amount < l.amount_to)
    /\ (l.category_id = 0 \/ l.category_id = category_id)
    /\ (l.branch_id = 0 \/ l.branch_id = branch_id)

\* the filter of get_applicable_rate
IsApplicable(l, loan_amount, category_id, branch_id) ==
    /\ l.amount_from <= loan_amount
    /\ (l.amount_to = 0 \/ loan_amount <= l.amount_to)
    /\ (l.category_id = 0 \/ l.category_id = category_id)
    /\ (l.branch_id = 0 \/ l.branch_id = branch_id)

Specificity(l) == <<l.category_id # 0, l.branch_id # 0>>

\* the sort key with the branch filter compared first
MoreSpecificBranchFirst(a, b) ==
    \/ Specificity(a)[2] /\ ~Specificity(b)[2]
    \/ Specificity(a)[2] = Specificity(b)[2] /\ Specificity(a)[1] /\ ~Specificity(b)[1]

\* the order of sorted(key=(bool(category), bool(branch)), reverse=True)
MoreSpecific(a, b) ==
    \/ Specificity(a)[1] /\ ~Specificity(b)[1]
    \/ Specificity(a)[1] = Specificity(b)[1] /\ Specificity(a)[2] /\ ~Specificity(b)[2]

\* the window test without the end date
InWindowFromStart(tbl, date) == ~(date < tbl.date_from)

InWindow(tbl, date) ==
    ~(date < tbl.date_from \/ (tbl.date_to # NoDate /\ date > tbl.date_to))

\* [found, rate, applicable]; found FALSE is the return value False.  Two
\* applicable lines of equal specificity would have the same category and
\* branch and both hold loan_amount, which _check_overlapping_ranges
\* excludes: sorted_lines[0] is the one line no other is more specific than.
get_applicable_rate(tbl, rls, loan_amount, category_id, branch_id, date) ==
    LET applicable == {l \in rls : IsApplicable(l, loan_amount, category_id, branch_id)}
        first == CHOOSE l \in applicable : \A o \in applicable : ~MoreSpecific(o, l)
    IN  IF ~InWindow(tbl, date) THEN [found |-> FALSE, rate |-> 0, applicable |-> {}]
        ELSE IF applicable = {} THEN [found |-> FALSE, rate |-> 0, applicable |-> {}]
        ELSE [found |-> TRUE, rate |-> first.rate_percent, applicable |-> applicable]

TicketsUnchanged == UNCHANGED <<tickets, lines, config, today>>

\* a new line of the table; the lines get distinct rates, in creation order.
\* A change of the lines discards the last lookup's result.
rate_line_create(from, to, cat, br) ==
    /\ Cardinality(rate_lines) < MaxRateLines
    /\ LET rl == RateLine(from, to, cat, br, FirstRatePercent + Cardinality(rate_lines))
           ok == _check_amount_range(rl) /\ _check_overlapping_ranges(rl, rate_lines)
       IN  /\ rate_lines' = IF ok THEN rate_lines \cup {rl} ELSE rate_lines
           /\ lastOp' = Op("rate_line_create", <<from, to, cat, br>>, ok, "")
    /\ rate_query' = NoQuery
    /\ UNCHANGED rate_table
    /\ TicketsUnchanged
    /\ WizardUnchanged

call_get_applicable_rate(loan_amount, category_id, branch_id, date) ==
    /\ LET r == get_applicable_rate(rate_table, rate_lines, loan_amount,
                                    category_id, branch_id, date)
       IN  rate_query' = [asked |-> TRUE, loan_amount |-> loan_amount,
                          category_id |-> category_id, branch_id |-> branch_id,
                          date |-> date, applicable |-> r.applicable,
                          found |-> r.found, rate |-> r.rate]
    /\ lastOp' = Op("get_applicable_rate", <<>>, TRUE, "")
    /\ UNCHANGED <<rate_table, rate_lines>>
    /\ TicketsUnchanged
    /\ WizardUnchanged

\* ------------------------------------------------------ pawn.intake.wizard
step_order == <<"customer", "kyc", "items", "appraisal", "rate", "preview">>

StepIndex(step) == CHOOSE i \in DOMAIN step_order : step_order[i] = step

\* the wizard's ltv_ratio (_compute_totals) compared with max_ltv, exactly
IntakeLtvExceeds(w, cfg) ==
    LET appraised == SumOver(w.line_ids, DOMAIN w.line_ids)
    IN  appraised > 0 /\ w.principal_amount * 100 > cfg.max_ltv_ratio * appraised

\* PawnIntakeWizard._validate_step: TRUE when it does not raise
_validate_step(w, step, cfg, day) ==
    CASE step = "customer" -> w.customer_id /\ w.branch_id
      [] step = "kyc" -> TRUE
      [] step = "items" -> w.line_ids # <<>>
      [] step = "appraisal" -> \A i \in DOMAIN w.line_ids : w.line_ids[i] > 0
      [] step = "rate" ->
             /\ w.principal_amount > 0
             /\ InterestRate > 0
             /\ w.date_maturity # NoDate
             /\ w.date_maturity > day
             /\ ~IntakeLtvExceeds(w, cfg)
      [] step = "preview" -> w.terms_accepted

WizardOp(name, ok, note, w) ==
    /\ lastOp' = Op(name, <<>>, ok, note)
    /\ wizard' = IF ok THEN w ELSE wizard
    /\ UNCHANGED <<tickets, lines, config, today>>
    /\ RateUnchanged

\* the wizard opened and saved with its defaults
intake_create ==
    /\ ~wizard.exists
    /\ WizardOp("intake_create", TRUE, "",
                [NoWizard EXCEPT !.exists = TRUE, !.customer_id = TRUE,
                                 !.branch_id = TRUE,
                                 !.date_maturity = today + DefaultMaturityDays])

\* the form saved with the values entered: items, principal, maturity, terms
intake_write(ls, p, m, terms) ==
    /\ wizard.exists
    /\ LET w == [wizard EXCEPT !.line_ids = ls, !.principal_amount = p,
                               !.date_maturity = m, !.terms_accepted = terms]
       IN  w # wizard /\ WizardOp("intake_write", TRUE, "", w)

action_next_step ==
    /\ wizard.exists
    /\ LET i == StepIndex(wizard.current_step)
           ok == _validate_step(wizard, wizard.current_step, config, today)
           w == IF i < Len(step_order)
                THEN [wizard EXCEPT !.current_step = step_order[i + 1]]
                ELSE wizard
       IN  WizardOp("action_next_step", ok, "", w)

action_previous_step ==
    /\ wizard.exists
    /\ LET i == StepIndex(wizard.current_step)
           w == IF i > 1
                THEN [wizard EXCEPT !.current_step = step_order[i - 1]]
                ELSE wizard
       IN  WizardOp("action_previous_step", TRUE, "", w)

action_jump_to_step(step) ==
    /\ wizard.exists
    /\ WizardOp("action_jump_to_step", TRUE, "",
                [wizard EXCEPT !.current_step = step])

\* the k-th unused line id
FreeLineId(ls, k) ==
    CHOOSE l \in Lines :
        /\ ls[l].ticket_id = 0
        /\ Cardinality({j \in Lines : j < l /\ ls[j].ticket_id = 0}) = k - 1

\* PawnIntakeWizard.action_create_ticket: _validate_step('preview'), then
\* pawn.ticket create with the lines, under the constraints of both models
action_create_ticket(t) ==
    /\ wizard.exists
    /\ ~tickets[t].exists
    /\ Cardinality({l \in Lines : lines[l].ticket_id = 0}) >= Len(wizard.line_ids)
    /\ LET n == Len(wizard.line_ids)
           new == {FreeLineId(lines, k) : k \in 1..n}
           lns == [l \in Lines |->
                      IF l \in new
                      THEN [NoLine EXCEPT
                              !.ticket_id = t,
                              !.appraised_value =
                                  wizard.line_ids[CHOOSE k \in 1..n :
                                                      FreeLineId(lines, k) = l]]
                      ELSE lines[l]]
           raw == [NoTicket EXCEPT !.exists = TRUE,
                                   !.principal_amount = wizard.principal_amount,
                                   !.interest_rate = InterestRate,
                                   !.date_maturity = wizard.date_maturity,
                                   !.ltv_max_checked = config.max_ltv_ratio]
           tk == WriteLines(WritePrincipal(WriteMaturity(raw, config, today),
                                           config, today),
                            lns, t)
           valid == _validate_step(wizard, "preview", config, today)
           ok == /\ valid
                 /\ _check_loan_amount_limits(tk, config)
                 /\ _check_ltv_ratio(tk, config)
                 /\ _check_has_items(tk, lns, t)
                 /\ \A l \in new : _check_appraised_value(lns[l])
       IN  /\ Finish("action_create_ticket", <<t>>, ok,
                     IF valid THEN "" ELSE "terms",
                     [tickets EXCEPT ![t] = tk], lns)

\* ------------------------------------------------------- specifications
\* record ids come from a sequence: the lowest unused one
NextTicketId(t) == \A u \in Tickets : u < t => tickets[u].exists
NextLineId(l) == \A k \in Lines : k < l => lines[k].ticket_id # 0
FirstTicket == CHOOSE t \in Tickets : \A u \in Tickets : t <= u

\* Spec: the life of one ticket, with the clock and the grace-days setting
Next ==
    \/ \E p \in OnePrincipal, m \in MaturityChoices : create(FirstTicket, p, m)
    \/ \E l \in Lines, v \in OneAppraisedValue :
           NextLineId(l) /\ line_create(l, FirstTicket, v, FALSE)
    \/ \E l \in Lines, viaTicket \in BOOLEAN : line_unlink(l, viaTicket)
    \/ action_disburse(FirstTicket)
    \/ action_forfeit(FirstTicket)
    \/ action_cancel(<<FirstTicket>>)
    \/ \E m \in MaturityChoices : renew_action_confirm(FirstTicket, m)
    \/ \E post_ok \in BOOLEAN, pay_ok \in BOOLEAN :
           redeem_action_confirm(FirstTicket, post_ok, pay_ok)
    \/ AdvanceDay
    \/ \E g \in GraceDayChoices : set_grace_period_days(g)

Spec == Init /\ [][Next]_vars

\* SpecMulti: several tickets on one day, and calls of action_cancel on
\* recordsets in id order
NextMulti ==
    \/ \E t \in Tickets, p \in OnePrincipal :
           NextTicketId(t) /\ create(t, p, today)
    \/ \E t \in Tickets, v \in OneAppraisedValue :
           /\ \A l \in Lines : lines[l].ticket_id # t
           /\ line_create(t, t, v, FALSE)
    \/ \E t \in Tickets : action_disburse(t)
    \/ \E t \in Tickets : action_forfeit(t)
    \/ \E ids \in Recordsets :
           /\ \A i, j \in DOMAIN ids : i < j => ids[i] < ids[j]
           /\ action_cancel(ids)
    \/ \E t \in Tickets : renew_action_confirm(t, today)
    \/ \E t \in Tickets : redeem_action_confirm(t, TRUE, TRUE)

SpecMulti == Init /\ [][NextMulti]_vars

\* SpecLtv: creating and amending one ticket and its lines under max_ltv_ratio
NextLtv ==
    \/ \E p \in Principals : create(FirstTicket, p, today)
    \/ \E p \in Principals : write_principal(FirstTicket, p)
    \/ \E l \in Lines, v \in AppraisedValues :
           NextLineId(l) /\ line_create(l, FirstTicket, v, FALSE)
    \/ \E l \in Lines, v \in AppraisedValues : line_write(l, v)
    \/ \E l \in Lines, viaTicket \in BOOLEAN : line_unlink(l, viaTicket)
    \/ action_disburse(FirstTicket)
    \/ \E x \in MaxLtvChoices : set_max_ltv_ratio(x)

SpecLtv == Init /\ [][NextLtv]_vars

\* SpecLine: one ticket through its life, with the line methods also called
\* on their own
NextLine ==
    \/ \E p \in OnePrincipal : create(FirstTicket, p, today)
    \/ \E l \in Lines, v \in OneAppraisedValue, prod \in BOOLEAN :
           NextLineId(l) /\ line_create(l, FirstTicket, v, prod)
    \/ action_disburse(FirstTicket)
    \/ action_forfeit(FirstTicket)
    \/ redeem_action_confirm(FirstTicket, TRUE, TRUE)
    \/ AdvanceDay
    \/ \E l \in Lines : call_create_stock_move(l)
    \/ \E l \in Lines : call_forfeit_item(l)
    \/ \E l \in Lines : call_redeem_item(l)

SpecLine == Init /\ [][NextLine]_vars

\* SpecAmounts: one ticket without lines through its life, with edits of
\* its principal and interest rate, and the clock
NextAmounts ==
    \/ \E p \in Principals, m \in MaturityChoices : create(FirstTicket, p, m)
    \/ \E p \in Principals : write_principal(FirstTicket, p)
    \/ \E r \in InterestRateChoices : write_interest_rate(FirstTicket, r)
    \/ action_disburse(FirstTicket)
    \/ action_forfeit(FirstTicket)
    \/ action_cancel(<<FirstTicket>>)
    \/ \E m \in MaturityChoices : renew_action_confirm(FirstTicket, m)
    \/ redeem_action_confirm(FirstTicket, TRUE, TRUE)
    \/ AdvanceDay

SpecAmounts == Init /\ [][NextAmounts]_vars

\* SpecSearch: tickets through their life on a moving clock, and searches on
\* the status flags
NextSearch ==
    \/ \E t \in Tickets, p \in OnePrincipal, m \in MaturityChoices :
           NextTicketId(t) /\ create(t, p, m)
    \/ \E t \in Tickets : action_disburse(t)
    \/ \E t \in Tickets : redeem_action_confirm(t, TRUE, TRUE)
    \/ AdvanceDay
    \/ \E g \in GraceDayChoices : set_grace_period_days(g)
    \/ \E field \in SearchFields, operator \in SearchOperators, value \in BOOLEAN :
           search(field, operator, value)

SpecSearch == Init /\ [][NextSearch]_vars

\* SpecReport: one ticket and its row of the loan book report, starting
\* with pawnshop.grace_period_days not yet saved
InitReport ==
    /\ tickets = [t \in Tickets |-> NoTicket]
    /\ lines = [l \in Lines |-> NoLine]
    /\ config = [InitConfig EXCEPT !.grace_period_days = NoParam]
    /\ today = 0
    /\ lastOp = Op("init", <<>>, TRUE, "")
    /\ rate_table = [date_from |-> 0, date_to |-> NoDate]
    /\ rate_lines = {}
    /\ rate_query = NoQuery
    /\ wizard = NoWizard

NextReport ==
    \/ \E p \in OnePrincipal, m \in ReportMaturities : create(FirstTicket, p, m)
    \/ action_disburse(FirstTicket)
    \/ \E m \in ReportMaturities : renew_action_confirm(FirstTicket, m)
    \/ AdvanceDay
    \/ \E g \in GraceDayChoices : set_grace_period_days(g)
    \/ report_read(FirstTicket)
    \/ get_aging_summary

SpecReport == InitReport /\ [][NextReport]_vars

\* SpecInvoice: one ticket with at most one line through renewals and
\* redemption, under changes of the configured invoicing products
NextInvoice ==
    \/ \E p \in OnePrincipal, m \in MaturityChoices : create(FirstTicket, p, m)
    \/ \E v \in OneAppraisedValue : line_create(FirstTicket, FirstTicket, v, FALSE)
    \/ action_disburse(FirstTicket)
    \/ \E m \in MaturityChoices : renew_action_confirm(FirstTicket, m)
    \/ redeem_action_confirm(FirstTicket, TRUE, TRUE)
    \/ action_create_redemption_invoice(FirstTicket)
    \/ AdvanceDay
    \/ \E S \in SUBSET ProductKeys : set_products(S)

SpecInvoice == Init /\ [][NextInvoice]_vars

\* SpecIntake: one intake wizard and the ticket it creates
IntakeItems == UNION {[1..n -> {0} \cup OneAppraisedValue] : n \in 0..MaxLines}

NextIntake ==
    \/ intake_create
    \/ \E ls \in IntakeItems, p \in {0} \cup OnePrincipal, m \in MaturityChoices,
          terms \in BOOLEAN : intake_write(ls, p, m, terms)
    \/ action_next_step
    \/ action_previous_step
    \/ \E i \in DOMAIN step_order : action_jump_to_step(step_order[i])
    \/ action_create_ticket(FirstTicket)
    \/ AdvanceDay

SpecIntake == Init /\ [][NextIntake]_vars

\* SpecRate: one rate table, its lines, and lookups
InitRate ==
    /\ tickets = [t \in Tickets |-> NoTicket]
    /\ lines = [l \in Lines |-> NoLine]
    /\ config = InitConfig
    /\ today = 0
    /\ lastOp = Op("init", <<>>, TRUE, "")
    /\ \E e \in TableEnds : rate_table = [date_from |-> 1, date_to |-> e]
    /\ rate_lines = {}
    /\ rate_query = NoQuery
    /\ wizard = NoWizard

NextRate ==
    \/ \E from \in RateAmounts, to \in RateAmounts, cat \in {0} \cup Categories,
          br \in {0} \cup Branches :
           rate_line_create(from, to, cat, br)
    \/ \E a \in QueryAmounts, cat \in {0} \cup Categories, br \in {0} \cup Branches,
          d \in QueryDates :
           call_get_applicable_rate(a, cat, br, d)

SpecRate == InitRate /\ [][NextRate]_vars

\* ================================================================ claims
Terminal == {"redeemed", "forfeited", "cancelled"}
Open == {"pledged", "renewed"}

\* the ticket an operation was invoked on
OpTicket(op) == op.ids[1]

TicketOps ==
    {"action_disburse", "action_forfeit", "renew_action_confirm",
     "redeem_action_confirm"}

\* the state changes of section 4.2's table, by operation
OpTransitions ==
    {<<"action_disburse", "draft", "pledged">>,
     <<"renew_action_confirm", "pledged", "renewed">>,
     <<"renew_action_confirm", "renewed", "renewed">>,
     <<"redeem_action_confirm", "pledged", "redeemed">>,
     <<"redeem_action_confirm", "renewed", "redeemed">>,
     <<"action_forfeit", "pledged", "forfeited">>,
     <<"action_forfeit", "renewed", "forfeited">>,
     <<"action_cancel", "draft", "cancelled">>}

\* C1: a ticket's state is always one of the six states; every change of a
\* ticket's state is one of the table's transitions, made by the table's
\* operation; a redeemed, forfeited or cancelled ticket never changes state.
C1_OnlyTableTransitions ==
    [][\A t \in Tickets :
        /\ tickets'[t].exists => tickets'[t].state \in States
        /\ (~tickets[t].exists /\ tickets'[t].exists) => tickets'[t].state = "draft"
        /\ tickets[t].exists =>
            /\ tickets'[t].exists
            /\ tickets'[t].state # tickets[t].state =>
                   <<lastOp'.op, tickets[t].state, tickets'[t].state>> \in OpTransitions
            /\ tickets[t].state \in Terminal => tickets'[t].state = tickets[t].state]_vars

\* C1 witness: redeem-confirm was invoked on a forfeited ticket, which is
\* still forfeited
C1_Witness ==
    /\ lastOp.op = "redeem_action_confirm"
    /\ ~lastOp.ok
    /\ tickets[OpTicket(lastOp)].state = "forfeited"

\* the precondition of each single-ticket operation on the ticket's state
Precondition(op, st) ==
    CASE op = "action_disburse" -> st = "draft"
      [] op \in {"action_forfeit", "renew_action_confirm", "redeem_action_confirm"} ->
             st \in Open
      [] OTHER -> TRUE

\* C2: disburse, renew-confirm, redeem-confirm and forfeit invoked on a
\* ticket whose state fails the operation's precondition, and cancel invoked
\* on a recordset holding a non-draft ticket, fail and leave every ticket
\* (state, date stamps, maturity date, invoices) and every line (stock
\* moves) unchanged; so no ticket of a failed cancel ends up cancelled.
C2_FailedPreconditionChangesNothing ==
    [][/\ (lastOp'.op \in TicketOps
              /\ ~Precondition(lastOp'.op, tickets[OpTicket(lastOp')].state))
           => (~lastOp'.ok /\ tickets' = tickets /\ lines' = lines)
       /\ (lastOp'.op = "action_cancel"
              /\ \E i \in DOMAIN lastOp'.ids : tickets[lastOp'.ids[i]].state # "draft")
           => (~lastOp'.ok /\ tickets' = tickets /\ lines' = lines)]_vars

\* C2 witness: cancel was invoked on two tickets, the first a draft and the
\* second not, it failed, and the first is still a draft
C2_Witness ==
    /\ lastOp.op = "action_cancel"
    /\ ~lastOp.ok
    /\ Len(lastOp.ids) = 2
    /\ tickets[lastOp.ids[1]].state = "draft"
    /\ tickets[lastOp.ids[2]].state = "pledged"

\* C3: forfeit succeeds only when today > maturity date + the configured
\* grace days.
C3_ForfeitOnlyPastGraceDays ==
    (lastOp.op = "action_forfeit" /\ lastOp.ok)
        => today > tickets[OpTicket(lastOp)].date_maturity + config.grace_period_days

\* C3, against the stored grace-end date: forfeit succeeds only after the
\* ticket's date_grace_end, and a refused forfeit changes nothing.
C3_ForfeitOnlyPastStoredGraceEnd ==
    [][lastOp'.op = "action_forfeit" =>
        LET tk == tickets[OpTicket(lastOp')]
        IN  IF tk.state \in Open /\ today > tk.date_maturity /\ today > tk.date_grace_end
            THEN TRUE
            ELSE ~lastOp'.ok /\ tickets' = tickets /\ lines' = lines]_vars

\* C4: after redeem-confirm on a pledged or renewed ticket, either it
\* succeeded and the ticket is redeemed with total_due 0 and a completed
\* custody->customer move on every line, or it failed and the ticket and its
\* lines are as before, no line having a release move.
C4_RedeemAtomic ==
    [][(lastOp'.op = "redeem_action_confirm"
           /\ tickets[OpTicket(lastOp')].state \in Open) =>
        LET t == OpTicket(lastOp')
        IN  \/ /\ lastOp'.ok
               /\ tickets'[t].state = "redeemed"
               /\ tickets'[t].total_due = 0
               /\ \A l \in Lines : lines'[l].ticket_id = t =>
                      lines'[l].stock_move_ids["customer"] = 1
            \/ /\ ~lastOp'.ok
               /\ tickets'[t] = tickets[t]
               /\ lines' = lines
               /\ \A l \in Lines : lines'[l].ticket_id = t =>
                      lines'[l].stock_move_ids["customer"] = 0]_vars

\* C4 witness: a redeemed ticket with two released lines, right after
\* redeem-confirm
C4_Witness ==
    /\ lastOp.op = "redeem_action_confirm"
    /\ lastOp.ok
    /\ tickets[OpTicket(lastOp)].state = "redeemed"
    /\ Cardinality(line_ids(lines, OpTicket(lastOp))) = 2
    /\ \A l \in line_ids(lines, OpTicket(lastOp)) : lines[l].stock_move_ids["customer"] = 1

\* C5: every ticket in a non-draft state has at least one item.
C5_NonDraftHasItems ==
    \A t \in Tickets :
        (tickets[t].exists /\ tickets[t].state # "draft") => line_ids(lines, t) # {}

\* the sum of the appraised values of ticket t's lines
ItemsValue(t) ==
    SumOver([l \in Lines |-> IF lines[l].ticket_id = t THEN lines[l].appraised_value ELSE 0],
            Lines)

Abs(x) == IF x < 0 THEN -x ELSE x

\* C6: every stored ticket's ltv_ratio is principal / appraised value x 100
\* to the field's two decimals (0 when the appraised value is not positive),
\* and is not above the max_ltv_ratio in force when the ticket was created or
\* its principal or item values were last amended.
C6_LtvWithinMaximum ==
    \A t \in Tickets : tickets[t].exists =>
        LET tk == tickets[t]
            a == ItemsValue(t)
        IN  /\ tk.appraised_value = a
            /\ IF a > 0
               THEN 2 * Abs(tk.ltv_ratio * a - tk.principal_amount * 100 * LtvScale) <= a
               ELSE tk.ltv_ratio = 0
            /\ tk.ltv_ratio <= tk.ltv_max_checked * LtvScale

\* C6 witness: an amendment of the principal was rejected, the ticket keeps
\* an LTV of 40% under a maximum of 50%
C6_Witness ==
    /\ lastOp.op = "write_principal"
    /\ ~lastOp.ok
    /\ config.max_ltv_ratio = 50
    /\ tickets[OpTicket(lastOp)].ltv_ratio = 40 * LtvScale
    /\ tickets[OpTicket(lastOp)].ltv_max_checked = 50

\* C7: a successful renew-confirm sets the state to renewed, makes the
\* maturity date strictly later than it was, adds exactly one renewal
\* invoice to the ticket, and leaves principal, pledge date and stock moves
\* unchanged.
C7_RenewExtendsMaturity ==
    [][(lastOp'.op = "renew_action_confirm" /\ lastOp'.ok) =>
        LET t == OpTicket(lastOp')
        IN  /\ tickets'[t].state = "renewed"
            /\ tickets'[t].date_maturity > tickets[t].date_maturity
            /\ tickets'[t].invoice_ids =
                   Append(tickets[t].invoice_ids, Invoice("renewal", FALSE, FALSE))
            /\ tickets'[t].principal_amount = tickets[t].principal_amount
            /\ tickets'[t].date_pledged = tickets[t].date_pledged
            /\ lines' = lines]_vars

\* C8: a successful disburse leaves the ticket pledged, date_pledged today,
\* the disbursement recorded, and every line of the ticket with a product
\* and exactly one completed customer->custody move.
C8_DisbursePledges ==
    [][(lastOp'.op = "action_disburse" /\ lastOp'.ok) =>
        LET t == OpTicket(lastOp')
        IN  /\ tickets[t].state = "draft"
            /\ tickets'[t].state = "pledged"
            /\ tickets'[t].date_pledged = today
            /\ tickets'[t].disbursed
            /\ \A l \in Lines : lines'[l].ticket_id = t =>
                   /\ lines'[l].product_id
                   /\ lines'[l].stock_move_ids["custody"] = 1]_vars

\* C8 witness: a ticket with two lines, right after its disburse
C8_Witness ==
    /\ lastOp.op = "action_disburse"
    /\ lastOp.ok
    /\ tickets[OpTicket(lastOp)].state = "pledged"
    /\ Cardinality(line_ids(lines, OpTicket(lastOp))) = 2

LineMethods == {"_create_stock_move", "_forfeit_item", "_redeem_item"}

DestOf(method) ==
    CASE method = "_create_stock_move" -> "custody"
      [] method = "_forfeit_item" -> "forfeited"
      [] method = "_redeem_item" -> "customer"

\* C9: no line ever has two completed moves to the same destination, however
\* often the custody, forfeit and release methods are called on it; a call
\* on a line that already has the completed move creates no stock move, and
\* when it returns it returns that move.
C9_MovesIdempotent ==
    /\ [](\A l \in Lines, d \in Dests : lines[l].stock_move_ids[d] <= 1)
    /\ [][(lastOp'.op \in LineMethods
              /\ lines[OpTicket(lastOp')].stock_move_ids[DestOf(lastOp'.op)] = 1)
           => /\ lines'[OpTicket(lastOp')].stock_move_ids
                     = lines[OpTicket(lastOp')].stock_move_ids
              /\ lastOp'.ok => lastOp'.note = "existing"]_vars

\* C9 witness: _forfeit_item called again on a line already moved to the
\* forfeited location
C9_Witness ==
    /\ lastOp.op = "_forfeit_item"
    /\ lastOp.ok
    /\ lastOp.note = "existing"
    /\ lines[OpTicket(lastOp)].stock_move_ids["forfeited"] = 1

QueryInWindow == rate_query.asked /\ InWindow(rate_table, rate_query.date)

FiltersMatch(l) ==
    /\ (l.category_id = 0 \/ l.category_id = rate_query.category_id)
    /\ (l.branch_id = 0 \/ l.branch_id = rate_query.branch_id)

\* C10: the lines get_applicable_rate takes as matches are exactly those
\* with amount_from <= amount < amount_to (unset amount_to: no upper limit)
\* whose category and branch filters are unset or equal to the request's.
C10_MatchHalfOpen ==
    QueryInWindow =>
        rate_query.applicable =
            {l \in rate_lines :
                /\ l.amount_from <= rate_query.loan_amount
                /\ (l.amount_to = 0 \/ rate_query.loan_amount < l.amount_to)
                /\ FiltersMatch(l)}

\* C10 amended: the matches are exactly the lines with
\* amount_from <= amount <= amount_to (unset amount_to: no upper limit) whose
\* category and branch filters are unset or equal to the request's.
C10_MatchClosed ==
    QueryInWindow =>
        rate_query.applicable =
            {l \in rate_lines :
                /\ l.amount_from <= rate_query.loan_amount
                /\ (l.amount_to = 0 \/ rate_query.loan_amount <= l.amount_to)
                /\ FiltersMatch(l)}

\* C10 witness: a lookup of an amount equal to a line's amount_to matched
\* that line, and left out a line of another category
C10_Witness ==
    /\ QueryInWindow
    /\ \E l \in rate_query.applicable : l.amount_to = rate_query.loan_amount
    /\ \E l \in rate_lines \ rate_query.applicable :
           /\ l.amount_from <= rate_query.loan_amount
           /\ (l.amount_to = 0 \/ rate_query.loan_amount <= l.amount_to)
           /\ l.category_id # rate_query.category_id

\* the specificity score (has_category, has_branch) of a is
\* lexicographically greater than that of b
ScoreGreater(a, b) ==
    \/ a.category_id # 0 /\ b.category_id = 0
    \/ (a.category_id # 0) = (b.category_id # 0) /\ a.branch_id # 0 /\ b.branch_id = 0

\* among the matching lines, those of the greatest specificity score
MostSpecific(S) == {l \in S : \A o \in S : ~ScoreGreater(o, l)}

\* C11: when lines match, get_applicable_rate returns the rate of a matching
\* line of the greatest specificity score: one with a category filter when
\* any matching line has one, and among lines equal on category presence
\* one with a branch filter when any has one.
C11_MostSpecificRate ==
    (QueryInWindow /\ rate_query.applicable # {}) =>
        /\ rate_query.found
        /\ \E l \in MostSpecific(rate_query.applicable) :
               rate_query.rate = l.rate_percent
        /\ \A l \in rate_query.applicable :
               l.rate_percent = rate_query.rate => l \in MostSpecific(rate_query.applicable)

\* C11 witness: a category-only line and a branch-only line both match, and
\* the rate returned is the category line's
C11_Witness ==
    /\ QueryInWindow
    /\ \E c \in rate_query.applicable, b \in rate_query.applicable :
           /\ c.category_id # 0 /\ c.branch_id = 0
           /\ b.category_id = 0 /\ b.branch_id # 0
           /\ rate_query.rate = c.rate_percent

\* the rates of the stored lines tell the lines apart, and the most specific
\* matching line of a lookup is unique
RateLinesDistinct ==
    /\ \A a, b \in rate_lines : a.rate_percent = b.rate_percent => a = b
    /\ (QueryInWindow /\ rate_query.applicable # {}) =>
           Cardinality(MostSpecific(rate_query.applicable)) = 1

\* the line a rate_line_create was invoked with
OpRateLine(op) == [amount_from |-> op.ids[1], amount_to |-> op.ids[2],
                   category_id |-> op.ids[3], branch_id |-> op.ids[4]]

SameFilters(a, b) == a.category_id = b.category_id /\ a.branch_id = b.branch_id

\* [a.amount_from, a.amount_to) and [b.amount_from, b.amount_to) intersect
HalfOpenIntersect(a, b) ==
    /\ (a.amount_to = 0 \/ b.amount_from < a.amount_to)
    /\ (b.amount_to = 0 \/ a.amount_from < b.amount_to)

\* [a.amount_from, a.amount_to] and [b.amount_from, b.amount_to] intersect
ClosedIntersect(a, b) ==
    /\ (a.amount_to = 0 \/ b.amount_from <= a.amount_to)
    /\ (b.amount_to = 0 \/ a.amount_from <= b.amount_to)

WellFormed(a) == a.amount_to = 0 \/ a.amount_to > a.amount_from

\* C12: a rate line with amount_to > amount_from is rejected exactly when its
\* half-open range [amount_from, amount_to) intersects that of a stored line
\* with the same category and branch filter (so adjacent tiers are
\* accepted), and no two stored lines of one combination overlap.
C12_OverlapHalfOpen ==
    /\ [][(lastOp'.op = "rate_line_create" /\ WellFormed(OpRateLine(lastOp'))) =>
            (~lastOp'.ok <=>
                \E l \in rate_lines : /\ SameFilters(l, OpRateLine(lastOp'))
                                      /\ HalfOpenIntersect(l, OpRateLine(lastOp')))]_vars
    /\ [](\A a, b \in rate_lines :
            (a # b /\ SameFilters(a, b)) => ~HalfOpenIntersect(a, b))

\* C12 amended: the line is rejected exactly when its closed range
\* [amount_from, amount_to] intersects that of a stored line with the same
\* category and branch filter (so adjacent tiers sharing an end point are
\* rejected), and no two stored lines of one combination share an amount.
C12_OverlapClosed ==
    /\ [][(lastOp'.op = "rate_line_create" /\ WellFormed(OpRateLine(lastOp'))) =>
            (~lastOp'.ok <=>
                \E l \in rate_lines : /\ SameFilters(l, OpRateLine(lastOp'))
                                      /\ ClosedIntersect(l, OpRateLine(lastOp')))]_vars
    /\ [](\A a, b \in rate_lines :
            (a # b /\ SameFilters(a, b)) => ~ClosedIntersect(a, b))

\* C12 witness: a tier starting at the amount_to of a stored tier of the same
\* category and branch was rejected
C12_Witness ==
    /\ lastOp.op = "rate_line_create"
    /\ ~lastOp.ok
    /\ WellFormed(OpRateLine(lastOp))
    /\ \E l \in rate_lines :
           /\ SameFilters(l, OpRateLine(lastOp))
           /\ l.amount_to # 0
           /\ l.amount_to = OpRateLine(lastOp).amount_from

\* line l matches the last lookup's amount, category and branch
Matches(l) ==
    /\ l.amount_from <= rate_query.loan_amount
    /\ (l.amount_to = 0 \/ rate_query.loan_amount <= l.amount_to)
    /\ FiltersMatch(l)

\* C13: get_applicable_rate returns no rate if and only if the date is
\* before the table's date_from, or after its date_to when that is set, or
\* no line matches; in every other case it returns the rate_percent of a
\* matching line.
C13_FailureExactly ==
    rate_query.asked =>
        /\ ~rate_query.found <=>
               \/ rate_query.date < rate_table.date_from
               \/ (rate_table.date_to # NoDate /\ rate_query.date > rate_table.date_to)
               \/ ~\E l \in rate_lines : Matches(l)
        /\ rate_query.found =>
               \E l \in rate_lines : Matches(l) /\ rate_query.rate = l.rate_percent

\* C13 witness: a lookup after the table's date_to returned no rate although
\* a line matches
C13_Witness ==
    /\ rate_query.asked
    /\ ~rate_query.found
    /\ rate_table.date_to # NoDate
    /\ rate_query.date > rate_table.date_to
    /\ \E l \in rate_lines : Matches(l)

\* C14: read on day today, a pledged or renewed ticket has
\* is_due_today = (maturity = today), is_overdue = (maturity < today) and
\* is_in_grace = (is_overdue and grace end >= today); a ticket in any other
\* state has all three flags false.
C14_StatusFlags ==
    \A t \in Tickets : tickets[t].exists =>
        LET tk == tickets[t]
        IN  IF tk.state \in Open
            THEN /\ is_due_today(tk, today) = (tk.date_maturity = today)
                 /\ is_overdue(tk, today) = (tk.date_maturity < today)
                 /\ is_in_grace(tk, today) =
                        (tk.date_maturity < today /\ tk.date_grace_end >= today)
            ELSE /\ ~is_due_today(tk, today)
                 /\ ~is_overdue(tk, today)
                 /\ ~is_in_grace(tk, today)

\* C14 witness: an active ticket read on its grace-end day, one day after
\* maturity: overdue and in grace
C14_Witness ==
    \E t \in Tickets :
        /\ tickets[t].exists
        /\ tickets[t].state \in Open
        /\ tickets[t].date_maturity = today - 1
        /\ tickets[t].date_grace_end = today
        /\ is_overdue(tickets[t], today)
        /\ is_in_grace(tickets[t], today)

\* C15: in every reachable state, also after the date alone has advanced, a
\* ticket's penalty_amount is 0 unless the ticket is overdue, and then
\* principal x penalty rate / 100 x (today - maturity date) / 30.
C15_PenaltyFollowsClock ==
    \A t \in Tickets : tickets[t].exists =>
        LET tk == tickets[t]
        IN  tk.penalty_amount =
                IF tk.state \in Open /\ tk.date_maturity < today
                THEN (tk.principal_amount * config.penalty_rate_percent
                          * (today - tk.date_maturity) * MoneyScale) \div (100 * 30)
                ELSE 0

\* C16: interest_amount is 0 for draft and cancelled tickets, and otherwise
\* principal x interest_rate / 100 x (maturity date - pledge date) / 30, in
\* every reachable state, renewals included.
C16_InterestFormula ==
    \A t \in Tickets : tickets[t].exists =>
        LET tk == tickets[t]
        IN  tk.interest_amount =
                IF tk.state \in {"draft", "cancelled"} THEN 0
                ELSE (tk.principal_amount * tk.interest_rate
                          * (tk.date_maturity - tk.date_pledged) * MoneyScale) \div (100 * 30)

\* C16 witness: a ticket pledged on day 0 and just renewed to a maturity one
\* day after its pledge date carries one day's interest
C16_Witness ==
    /\ lastOp.op = "renew_action_confirm"
    /\ lastOp.ok
    /\ tickets[OpTicket(lastOp)].date_pledged = 0
    /\ tickets[OpTicket(lastOp)].date_maturity = 1
    /\ tickets[OpTicket(lastOp)].interest_amount > 0

\* C17: total_due is 0 for a redeemed, forfeited or cancelled ticket and
\* principal_amount + interest_amount + penalty_amount + service_fee for a
\* draft, pledged or renewed one, after every action and edit.
C17_TotalDue ==
    \A t \in Tickets : tickets[t].exists =>
        LET tk == tickets[t]
        IN  tk.total_due =
                IF tk.state \in Terminal THEN 0
                ELSE tk.principal_amount * MoneyScale + tk.interest_amount
                         + tk.penalty_amount + tk.service_fee

\* C17 witness: a redeemed ticket that carries interest and a service fee
\* has total_due 0
C17_Witness ==
    \E t \in Tickets :
        /\ tickets[t].exists
        /\ tickets[t].state = "redeemed"
        /\ tickets[t].interest_amount > 0
        /\ tickets[t].service_fee > 0
        /\ tickets[t].total_due = 0

\* C18: in every reachable state a ticket's grace-end date is its maturity
\* date plus the configured grace_period_days, also after a renewal and
\* after a change of the configuration.
C18_GraceEndFollowsConfig ==
    \A t \in Tickets : tickets[t].exists =>
        tickets[t].date_grace_end = tickets[t].date_maturity + config.grace_period_days

\* the value of the computed flag of ticket tk
Flag(field, tk) ==
    CASE field = "is_due_today" -> is_due_today(tk, today)
      [] field = "is_overdue" -> is_overdue(tk, today)
      [] field = "is_in_grace" -> is_in_grace(tk, today)

\* C19: a search for (P = v) or (P != not v), P one of is_due_today,
\* is_overdue and is_in_grace, finds exactly the tickets whose computed flag
\* P is v, whatever their state and maturity date.
C19_SearchMatchesFlag ==
    lastOp.op = "search" =>
        LET field == lastOp.note[1]
            v == Positive(lastOp.note[2], lastOp.note[3])
        IN  {lastOp.ids[i] : i \in DOMAIN lastOp.ids} =
                {t \in Tickets : tickets[t].exists /\ Flag(field, tickets[t]) = v}

\* the grace days the report is to use: the configured ones, 7 when unset
ReportGraceDays == IF config.grace_period_days = NoParam THEN 7 ELSE config.grace_period_days

\* C20: a ticket the loan book report lists gets the one bucket its maturity
\* date, today and the grace days (7 when the parameter is unset) give:
\* current more than 7 days before maturity, due_soon 1 to 7 days before,
\* matured on the maturity date, grace when overdue by at most the grace
\* days, overdue beyond.
C20_AgingBucket ==
    (lastOp.op = "loan_book_report" /\ lastOp.ok) =>
        LET m == tickets[OpTicket(lastOp)].date_maturity
        IN  lastOp.note =
                CASE m - today > 7 -> "current"
                  [] m - today \in 1..7 -> "due_soon"
                  [] m = today -> "matured"
                  [] m < today /\ today - m <= ReportGraceDays -> "grace"
                  [] OTHER -> "overdue"

\* the tickets in state pledged or renewed
ActiveLoans == {t \in Tickets : tickets[t].exists /\ tickets[t].state \in Open}

\* C21: the loan book report lists a ticket exactly when its state is
\* pledged or renewed, and the bucket counts of get_aging_summary add up to
\* the number of pledged and renewed tickets.
C21_ReportListsActiveLoans ==
    /\ lastOp.op = "loan_book_report" =>
           (lastOp.ok <=> OpTicket(lastOp) \in ActiveLoans)
    /\ lastOp.op = "get_aging_summary" =>
           SumOver(lastOp.ids, DOMAIN lastOp.ids) = Cardinality(ActiveLoans)

\* an invoicing product that the ticket's amounts need is not configured
ProductMissing(op, tk) ==
    \/ tk.interest_amount # 0 /\ "interest" \notin config.products
    \/ tk.penalty_amount # 0 /\ "penalty" \notin config.products
    \/ tk.service_fee # 0 /\ "service" \notin config.products
    \/ /\ op = "redeem_action_confirm"
       /\ "service" \notin config.products
       /\ "interest" \notin config.products

\* C22: renew-confirm or redeem-confirm on a pledged or renewed ticket with a
\* non-zero interest, penalty or service-fee amount whose product is not
\* configured (redeem-confirm also with neither the service-fee nor the
\* interest product) fails, and leaves the ticket (state, maturity date,
\* invoices) and the lines (stock moves) unchanged.
C22_MissingProductChangesNothing ==
    [][(/\ lastOp'.op \in {"renew_action_confirm", "redeem_action_confirm"}
        /\ tickets[OpTicket(lastOp')].state \in Open
        /\ ProductMissing(lastOp'.op, tickets[OpTicket(lastOp')]))
       => (~lastOp'.ok /\ tickets' = tickets /\ lines' = lines)]_vars

\* C22 witness: renew-confirm failed on an active ticket that carries a
\* penalty while only the penalty product is not configured
C22_Witness ==
    /\ lastOp.op = "renew_action_confirm"
    /\ ~lastOp.ok
    /\ lastOp.note = "product"
    /\ tickets[OpTicket(lastOp)].state \in Open
    /\ tickets[OpTicket(lastOp)].penalty_amount # 0
    /\ tickets[OpTicket(lastOp)].invoice_ids = <<>>
    /\ config.products = {"interest", "service"}

\* C23: after a successful renewal date_renewed holds the date of that
\* renewal, and a ticket in state renewed always has date_renewed set.
C23_RenewedHasDate ==
    /\ \A t \in Tickets :
           tickets[t].state = "renewed" => tickets[t].date_renewed # NoDate
    /\ (lastOp.op = "renew_action_confirm" /\ lastOp.ok)
           => tickets[OpTicket(lastOp)].date_renewed = today

\* the lines of ticket t
LinesOf(t) == {l \in Lines : lines[l].ticket_id = t}

C25_OpenLinesInCustody ==
    /\ \A l \in Lines :
           (lines[l].ticket_id # 0 /\ tickets[lines[l].ticket_id].state \in Open)
               => /\ lines[l].product_id
                  /\ lines[l].stock_move_ids["custody"] > 0
    /\ (lastOp.op = "redeem_action_confirm" /\ ~lastOp.ok) => lastOp.note # "line"
    /\ (lastOp.op = "action_forfeit" /\ ~lastOp.ok) => lastOp.note # "product"

\* C26: the date stamps agree with the state: date_pledged is set iff the
\* state is pledged, renewed, redeemed or forfeited; date_redeemed iff
\* redeemed; date_forfeited iff forfeited; never both of the last two.
C26_DateStampsFollowState ==
    \A t \in Tickets :
        tickets[t].exists =>
            /\ (tickets[t].date_pledged # NoDate)
                   <=> (tickets[t].state \in {"pledged", "renewed", "redeemed", "forfeited"})
            /\ (tickets[t].date_redeemed # NoDate) <=> (tickets[t].state = "redeemed")
            /\ (tickets[t].date_forfeited # NoDate) <=> (tickets[t].state = "forfeited")
            /\ ~(tickets[t].date_redeemed # NoDate /\ tickets[t].date_forfeited # NoDate)

\* C26 witness: a forfeiture has stamped date_forfeited on a ticket that
\* carries its pledge date and no redemption date
C26_Witness ==
    /\ lastOp.op = "action_forfeit"
    /\ lastOp.ok
    /\ tickets[OpTicket(lastOp)].state = "forfeited"
    /\ tickets[OpTicket(lastOp)].date_forfeited = today
    /\ tickets[OpTicket(lastOp)].date_pledged # NoDate
    /\ tickets[OpTicket(lastOp)].date_redeemed = NoDate

\* C27: on every line the completed moves are customer -> custody followed
\* by at most one of release and forfeit: a release or forfeit move exists
\* only if a custody move exists, and no line has both.
C27_MovesFormPrefix ==
    \A l \in Lines :
        /\ (lines[l].stock_move_ids["customer"] > 0 \/ lines[l].stock_move_ids["forfeited"] > 0)
               => lines[l].stock_move_ids["custody"] > 0
        /\ ~(lines[l].stock_move_ids["customer"] > 0 /\ lines[l].stock_move_ids["forfeited"] > 0)

\* C28: interest_amount, penalty_amount, service_fee and total_due are all
\* non-negative on every ticket, also one disbursed after its maturity date
\* or renewed to any new maturity date.
C28_AmountsNonNegative ==
    \A t \in Tickets :
        /\ tickets[t].interest_amount >= 0
        /\ tickets[t].penalty_amount >= 0
        /\ tickets[t].service_fee >= 0
        /\ tickets[t].total_due >= 0

\* the price_unit of each invoice line, in order
Amounts(ls) == [i \in DOMAIN ls |-> ls[i].price_unit]

\* the total of the invoice lines
InvoiceTotal(ls) == SumOver(Amounts(ls), DOMAIN ls)

\* C29: the invoice that action_create_redemption_invoice builds for a
\* pledged or renewed ticket has the same line amounts as the one
\* redeem-confirm builds from its pre-filled amounts, totals the ticket's
\* total_due, and the action leaves the state and the stock moves unchanged.
C29_SameRedemptionInvoice ==
    [][(lastOp'.op = "action_create_redemption_invoice" /\ lastOp'.ok)
       => LET t == OpTicket(lastOp')
          IN  /\ Amounts(lastOp'.note)
                     = Amounts(redeem_wizard_lines(tickets[t], config).lines)
              /\ InvoiceTotal(lastOp'.note) = tickets[t].total_due
              /\ tickets'[t].state = tickets[t].state
              /\ lines' = lines]_vars

\* C30: a ticket created through the intake wizard, by whatever sequence of
\* its navigation actions, starts in draft and satisfies every step
\* validation at creation: customer and branch set, at least one item, every
\* item appraised above zero, principal above zero, maturity in the future,
\* LTV within the configured maximum, terms accepted.
C30_IntakeTicketValid ==
    [][(lastOp'.op = "action_create_ticket" /\ lastOp'.ok)
       => LET t == OpTicket(lastOp')
              its == {l \in Lines : lines'[l].ticket_id = t}
          IN  /\ tickets'[t].exists /\ tickets'[t].state = "draft"
              /\ wizard.customer_id /\ wizard.branch_id
              /\ its # {}
              /\ \A l \in its : lines'[l].appraised_value > 0
              /\ tickets'[t].principal_amount > 0
              /\ tickets'[t].date_maturity > today
              /\ tickets'[t].principal_amount * 100
                     <= config.max_ltv_ratio * tickets'[t].appraised_value
              /\ wizard.terms_accepted]_vars

====
